---- MODULE Spec2Model ----
(***************************************************************************)
(* Ring search system: the search service (Backend/main.py) and the        *)
(* catalog indexing script (Backend/index_catalog.py).                     *)
(*                                                                         *)
(* Number representation.                                                  *)
(*   - a detection confidence is a float32 between 0.25 and 1, counted in   *)
(*     units of 2^-25 (the spacing of float32 between 0.25 and 0.5);       *)
(*   - a value of the resized segmentation mask is an integer number of    *)
(*     thousandths (0 .. 1000);                                            *)
(*   - a similarity is an integer number of hundredths of a percent        *)
(*     (38.0 % is 3800), so that rounding to one decimal place is          *)
(*     observable as "multiple of 10";                                     *)
(*   - embedding components are integers;                                  *)
(*   - NaN is a marker that no percentage equals.                          *)
(* The pretrained networks (YOLO, CLIP) and cv2.Canny are library oracles: *)
(* an image carries the detections, the resized first mask and the edge    *)
(* map the libraries return for it, and CLIP is a fixed table.             *)
(***************************************************************************)
EXTENDS Integers, Sequences, FiniteSets, TLC

VARIABLES
    folder,           \* Rings/ring/ : whether it exists, and its listing
    file,             \* catalog_data.npy : whether it exists, and its records
    clip_kind,        \* shape of what clip_model.get_image_features returns
    CATALOG_DATA,     \* main.py module global, loaded once at start
    boots,            \* number of times the service process was started
    indexed,          \* the indexing script has saved the catalog file
    saving,           \* the indexing script is inside np.save
    catalog_list,     \* run_indexing: the records it collected
    awaiting,         \* search_ring calls suspended in await file.read()
    pc,               \* position of the handler the event loop is running
                      \* (the locals below are those of the latest request)
    img,              \* search_ring: decoded upload
    detections,       \* search_ring: detected_classes / confidences
    mask_img,         \* get_combined_embedding: the stone view
    query_vector,     \* search_ring: what get_combined_embedding gave
    results_list,     \* search_ring: scored records
    top_10,           \* search_ring: sorted, truncated list
    response,         \* what the last request returned
    log               \* steps the current search_ring request has executed

vars == <<folder, file, clip_kind, CATALOG_DATA, boots, indexed, saving, catalog_list,
          awaiting, pc, img,
          detections, mask_img, query_vector, results_list, top_10,
          response, log>>

(***************************************************************************)
(* Bounds of the model and constants of the program                        *)
(***************************************************************************)
MaxBoots == 2
MaxCatalog == 12
MaxAwaiting == 2

PERSON_CLASS == 0
PERSON_CONF == 40
CONF_UNIT == 33554432
BEST_SIM_MIN == 3800
TOP_N == 10

\* results[0].masks is None
NoMask == <<>>

(***************************************************************************)
(* Sequences                                                               *)
(***************************************************************************)
Last(s) == s[Len(s)]

Take(s, n) == SubSeq(s, 1, IF n < Len(s) THEN n ELSE Len(s))

Abs(x) == IF x < 0 THEN -x ELSE x

(***************************************************************************)
(* Images.  An image is a record                                           *)
(*   pix    : the pixels (one intensity per pixel),                        *)
(*   mask   : results[0].masks.data[0] resized to the image, in            *)
(*            thousandths, or NoMask when the detector produced no mask,   *)
(*   edges  : cv2.Canny(gray, 100, 200) of the image,                      *)
(*   boxes  : the detections of the conf=0.15 call, each [cls, conf],      *)
(*   raises : a library call on this image throws.                         *)
(***************************************************************************)
Image(m, e, b, r) == [pix |-> <<9, 9>>, mask |-> m, edges |-> e, boxes |-> b, raises |-> r]

Masks == {NoMask, <<1000, 0>>, <<0, 1000>>, <<250, 3>>, <<500, 4>>, <<0, 0>>}

EdgeMaps == {<<0, 255>>, <<255, 255>>, <<255, 0>>}

\* the float32 nearest to h hundredths, for 0.25 <= h / 100 < 0.5
Float32(h) == (h * CONF_UNIT + 50) \div 100

\* a ring at confidence 0.5
Ring == [cls |-> 1, conf |-> CONF_UNIT \div 2]

Person(c) == [cls |-> PERSON_CLASS, conf |-> c]

\* a person at the float32 nearest to 0.40, and at its two neighbours
BoxLists ==
    {<< >>, <<Ring>>, <<Person(Float32(PERSON_CONF))>>,
     <<Ring, Person(Float32(PERSON_CONF) + 1)>>,
     <<Person(Float32(PERSON_CONF) - 1), Ring>>}

Uploads ==
    {Image(m, <<0, 255>>, <<Ring>>, FALSE) : m \in Masks}
    \cup {Image(NoMask, e, <<Ring>>, FALSE) : e \in EdgeMaps}
    \cup {Image(<<1000, 0>>, <<0, 255>>, b, FALSE) : b \in BoxLists}
    \cup {Image(NoMask, <<255, 255>>, <<Ring>>, TRUE)}

NoImage == [pix |-> << >>, mask |-> NoMask, edges |-> << >>, boxes |-> << >>, raises |-> FALSE]

(***************************************************************************)
(* Stone isolation (main.py 53-57, index_catalog.py 30-34)                 *)
(***************************************************************************)
\* (mask * 255).astype(np.uint8): truncation toward zero into 8 bits
MaskUint8Half(mask) == [p \in DOMAIN mask |-> IF mask[p] >= 500 THEN 255 ELSE 0]

MaskUint8(mask) == [p \in DOMAIN mask |-> ((mask[p] * 255) \div 1000) % 256]

\* cv2.bitwise_and(src, src, mask=m): src where m is non-zero, 0 elsewhere
BitwiseAnd(src, m) == [p \in DOMAIN src |-> IF m[p] # 0 THEN src[p] ELSE 0]

StoneView(im) ==
    IF im.mask # NoMask
    THEN BitwiseAnd(im.pix, MaskUint8(im.mask))
    ELSE im.pix

\* cv2.cvtColor(cv2.Canny(gray, 100, 200), COLOR_GRAY2RGB): the edge map,
\* the same in each of the three channels
StructureView(im) == im.edges

(***************************************************************************)
(* The embedding model.  A tensor is a record of type "Tensor": rank 2 is  *)
(* shape [1, D] with data a row, rank 3 is shape [1, S, D] with data a     *)
(* sequence of S rows.                                                     *)
(***************************************************************************)
Absent == [type |-> "Absent", rank |-> 0, data |-> << >>]

Tensor2(row) == [type |-> "Tensor", rank |-> 2, data |-> row]

Tensor3(rows) == [type |-> "Tensor", rank |-> 3, data |-> rows]

IsTensor(x) == x.type = "Tensor"

\* the projected image embedding of a view (clip-vit-base-patch32)
ClipFeatures(view) ==
    CASE view = <<9, 9>> -> <<30>>
      [] view = <<9, 0>> -> <<1>>
      [] view = <<0, 9>> -> <<-1>>
      [] view = <<0, 0>> -> <<2>>
      [] view = <<0, 255>> -> <<0>>
      [] view = <<255, 255>> -> <<73>>
      [] view = <<255, 0>> -> <<74>>
      [] OTHER -> <<1>>

\* the hidden states of a view: class token first, then one patch token
HiddenStates(view) == << <<ClipFeatures(view)[1], 1>>, <<0, 1>> >>

\* what clip_model.get_image_features returns, by installed library version
ClipKinds == {"tensor", "pooler", "tuple", "embeds", "hidden"}

Output(type, pooler, item0, hidden) ==
    [type |-> type, pooler_output |-> pooler, item0 |-> item0,
     last_hidden_state |-> hidden, rank |-> 0, data |-> << >>]

get_image_features(kind, view) ==
    CASE kind = "tensor" ->
            [type |-> "Tensor", pooler_output |-> Absent, item0 |-> Absent,
             last_hidden_state |-> Absent, rank |-> 2, data |-> ClipFeatures(view)]
      [] kind = "pooler" ->
            Output("ModelOutput", Tensor2(ClipFeatures(view)),
                   Tensor3(HiddenStates(view)), Tensor3(HiddenStates(view)))
      [] kind = "tuple" ->
            Output("tuple", Absent, Tensor2(ClipFeatures(view)), Absent)
      [] kind = "embeds" ->
            Output("ModelOutput", Absent, Tensor2(ClipFeatures(view)),
                   Tensor3(HiddenStates(view)))
      [] kind = "hidden" ->
            Output("ModelOutput", Absent, Tensor3(HiddenStates(view)),
                   Tensor3(HiddenStates(view)))

AsTensor(x) == [type |-> x.type, rank |-> x.rank, data |-> x.data]

HasPooler(out) == out.pooler_output # Absent

\* t[:, 0] of a rank-3 tensor; AttributeError when there is no such attribute
FirstToken(t) == IF IsTensor(t) /\ t.rank = 3 THEN Tensor2(t.data[1]) ELSE Absent

RECURSIVE Concat(_)
Concat(rows) == IF rows = << >> THEN << >> ELSE Head(rows) \o Concat(Tail(rows))

\* torch.cat((a, b), dim=1); type "Raised" when torch.cat throws
TorchCat(a, b) ==
    IF ~IsTensor(a) \/ ~IsTensor(b) \/ a.rank # b.rank
    THEN [type |-> "Raised", rank |-> 0, data |-> << >>]
    ELSE IF a.rank = 3 /\ Len(a.data[1]) # Len(b.data[1])
    THEN [type |-> "Raised", rank |-> 0, data |-> << >>]
    ELSE [type |-> "Tensor", rank |-> a.rank, data |-> a.data \o b.data]

\* .cpu().numpy().flatten().astype(np.float32) of a float32 tensor
Flatten(t) == IF t.rank = 3 THEN Concat(t.data) ELSE t.data

Embedded(t) == [raised |-> FALSE, vector |-> Flatten(t)]

EmbeddingRaised == [raised |-> TRUE, vector |-> << >>]

NoVector == [raised |-> FALSE, vector |-> << >>]

(***************************************************************************)
(* get_combined_embedding of main.py                                       *)
(***************************************************************************)
\* main.py 67, 72
MainFeatures(out) ==
    IF HasPooler(out) THEN out.pooler_output
    ELSE IF out.type = "tuple" THEN out.item0
    ELSE AsTensor(out)

MainCombinedEmbedding(im, kind) ==
    IF im.raises THEN EmbeddingRaised
    ELSE LET stone_features == MainFeatures(get_image_features(kind, StoneView(im)))
             edge_features == MainFeatures(get_image_features(kind, StructureView(im)))
             combined == TorchCat(stone_features, edge_features)
         IN  IF combined.type = "Raised" THEN EmbeddingRaised ELSE Embedded(combined)

(***************************************************************************)
(* get_combined_embedding of index_catalog.py                              *)
(***************************************************************************)
\* index_catalog.py 48-53
IndexStoneFeatures(out) ==
    IF HasPooler(out) THEN out.pooler_output
    ELSE IF IsTensor(out) THEN AsTensor(out)
    ELSE IF out.type = "tuple" THEN out.item0
    ELSE FirstToken(out.last_hidden_state)

\* index_catalog.py 60-65
IndexEdgeFeatures(out) ==
    IF HasPooler(out) THEN out.pooler_output
    ELSE IF IsTensor(out) THEN AsTensor(out)
    ELSE out.item0

IndexCombinedEmbedding(im, kind) ==
    IF im.raises THEN EmbeddingRaised
    ELSE LET stone_features == IndexStoneFeatures(get_image_features(kind, StoneView(im)))
             edge_features == IndexEdgeFeatures(get_image_features(kind, StructureView(im)))
             combined == TorchCat(stone_features, edge_features)
         IN  IF combined.type = "Raised" THEN EmbeddingRaised ELSE Embedded(combined)

(***************************************************************************)
(* Similarity (main.py 106, 109)                                           *)
(***************************************************************************)
RECURSIVE Dot(_, _)
Dot(u, v) == IF u = << >> THEN 0 ELSE Head(u) * Head(v) + Dot(Tail(u), Tail(v))

\* a / d <= c / b for a, c >= 0 and d, b > 0, without forming a * b or c * d
RECURSIVE FracLeq(_, _, _, _)
FracLeq(a, d, c, b) ==
    IF a \div d # c \div b THEN a \div d < c \div b
    ELSE IF a % d = 0 THEN TRUE
    ELSE IF c % b = 0 THEN FALSE
    ELSE FracLeq(b, c % b, d, a % d)

\* the largest r in lo .. hi with r / 10^4 <= |dt| / sqrt(nn)
RECURSIVE CosSearch(_, _, _, _)
CosSearch(lo, hi, dt, nn) ==
    IF lo = hi THEN lo
    ELSE LET mid == (lo + hi + 1) \div 2
         IN  IF FracLeq(mid * mid, dt * dt, 100000000, nn)
             THEN CosSearch(mid, hi, dt, nn)
             ELSE CosSearch(lo, mid - 1, dt, nn)

\* Natural numbers beyond the integers TLC computes with: sequences of
\* limbs below LIMB, least significant first, without leading zeros
LIMB == 10000

RECURSIVE Big(_)
Big(n) == IF n = 0 THEN << >> ELSE <<n % LIMB>> \o Big(n \div LIMB)

RECURSIVE Carry(_, _)
Carry(cols, c) ==
    IF cols = << >>
    THEN Big(c)
    ELSE <<(Head(cols) + c) % LIMB>> \o Carry(Tail(cols), (Head(cols) + c) \div LIMB)

RECURSIVE Column(_, _, _, _)
Column(a, b, k, i) ==
    IF i > Len(a) \/ i > k THEN 0
    ELSE (IF k + 1 - i <= Len(b) THEN a[i] * b[k + 1 - i] ELSE 0) + Column(a, b, k, i + 1)

BigMul(a, b) ==
    IF a = << >> \/ b = << >> THEN << >>
    ELSE Carry([k \in 1 .. Len(a) + Len(b) - 1 |-> Column(a, b, k, 1)], 0)

RECURSIVE LimbsLeq(_, _, _)
LimbsLeq(a, b, i) ==
    IF i = 0 THEN TRUE
    ELSE IF a[i] # b[i] THEN a[i] < b[i]
    ELSE LimbsLeq(a, b, i - 1)

BigLeq(a, b) == IF Len(a) # Len(b) THEN Len(a) < Len(b) ELSE LimbsLeq(a, b, Len(a))

\* the finer unit of a cosine: 10^-7, that is 10^-5 percent
COS_UNIT == 10000000

\* the largest r in lo .. hi with r / 10^7 <= |u.v| / sqrt(u.u v.v), given
\* dt2 = (u.v)^2 10^14 and nn = u.u v.v in limbs
RECURSIVE CosRefine(_, _, _, _)
CosRefine(lo, hi, dt2, nn) ==
    IF lo = hi THEN lo
    ELSE LET mid == (lo + hi + 1) \div 2
         IN  IF BigLeq(BigMul(BigMul(Big(mid), Big(mid)), nn), dt2)
             THEN CosRefine(mid, hi, dt2, nn)
             ELSE CosRefine(lo, mid - 1, dt2, nn)

\* main.py 75: the vectors are float32, whose unit roundoff is 2^-24
FLOAT32_ROUNDOFF == 16777216

IsPowerOfTwo(n) == \E k \in 0 .. 30 : n = 2 ^ k

\* A bound, in units of 10^-7 and rounded up, on the distance between the
\* cosine of u and v and the double sim that the code computes, whether
\* numpy and scipy work in float32 or in float64, and whether scipy takes
\* dot products or averages (np.average divides the sums by the length).
\* The product u.u v.v, its root, the quotient and the two subtractions
\* contribute at most 6 roundoffs.  The three sums are exact when u.u and
\* v.v are below 2^24 (the components are whole numbers), and contribute at
\* most one roundoff per component to the numerator and to the denominator
\* otherwise.  The division by the length is exact when the length is a
\* power of two, and contributes one roundoff to each otherwise.
FloatErr(u, v) ==
    LET sums == IF Dot(u, u) < FLOAT32_ROUNDOFF /\ Dot(v, v) < FLOAT32_ROUNDOFF
                THEN 0 ELSE 2 * Len(u)
        averages == IF IsPowerOfTwo(Len(u)) THEN 0 ELSE 2
        roundoffs == 6 + sums + averages
    IN  (roundoffs * (COS_UNIT \div 128)) \div (FLOAT32_ROUNDOFF \div 128) + 1

\* sim = 1 - cosine(query_vector, item['vector']) (main.py 106), for vectors
\* of the same length: the double is sign times a value between lo and hi,
\* in units of 10^-7, or, where nan is set, NaN.
\*  - When u or v has zero norm the quotient is 0 / 0, NaN.  The scipy
\*    releases that clamp the distance with max(0, min(d, 2.0)) return the
\*    distance 0 for it, so that sim is 1; the others return NaN.
\*  - The exact cosine u.v / (|u| |v|) lies between two neighbouring
\*    hundredths of a percent, and the double within FloatErr of it.  The
\*    hundredth is found in TLC's integers when the squares fit in them.
\*  - Where a rounding tie lies in that range, the cosine is located to the
\*    finer unit.  When it is a dyadic fraction, u.u v.v is below 2^24 and
\*    the length is a power of two, every floating-point step is exact in
\*    every build and the double is the cosine.
Sim(u, v) ==
    LET dt == Abs(Dot(u, v))
        uu == Dot(u, u)
        vv == Dot(v, v)
        err == FloatErr(u, v)
        nn == BigMul(Big(uu), Big(vv))
        dt2 == BigMul(BigMul(Big(dt), Big(dt)), BigMul(Big(COS_UNIT), Big(COS_UNIT)))
        h == IF dt = 0 THEN 0
             ELSE IF uu <= 46340 /\ vv <= 46340
             THEN CosSearch(0, 10000, dt, uu * vv)
             ELSE CosRefine(0, COS_UNIT, dt2, nn) \div 1000
        tie == ((h \div 10) * 10 + 5) * 1000
        next == IF h = 10000 THEN h * 1000 ELSE h * 1000 + 1000
        mag == CosRefine(h * 1000, IF h = 10000 THEN next ELSE next - 1, dt2, nn)
        whole == BigMul(BigMul(Big(mag), Big(mag)), nn) = dt2
        sign == IF Dot(u, v) < 0 THEN -1 ELSE 1
    IN  IF uu = 0 \/ vv = 0
        THEN [sign |-> 1, lo |-> COS_UNIT, hi |-> COS_UNIT, nan |-> TRUE]
        ELSE IF tie < h * 1000 - err \/ tie > next + err
        THEN [sign |-> sign, lo |-> h * 1000 - err, hi |-> next + err, nan |-> FALSE]
        ELSE IF whole /\ mag % (COS_UNIT \div 128) = 0
                /\ uu <= (FLOAT32_ROUNDOFF - 1) \div vv
                /\ IsPowerOfTwo(Len(u))
        THEN [sign |-> sign, lo |-> mag, hi |-> mag, nan |-> FALSE]
        ELSE [sign |-> sign, lo |-> mag - err,
              hi |-> IF whole THEN mag + err ELSE mag + 1 + err, nan |-> FALSE]

\* float('nan'): a marker outside the percentages
NaN == 99999

\* round(float(sim) * 100, 1) (main.py 109), in hundredths of a percent: the
\* values it can return for the doubles in x.  round() rounds the double it
\* is given correctly: to the nearest tenth, and a double that is a tie
\* itself to the tenth with the even last digit; round(nan, 1) is nan.
\* When x holds doubles on both sides of a tie, the side on which the double
\* lies depends on the arithmetic of the installed numpy and scipy (float32
\* or float64 dot products), and either tenth can be returned.
Round1Skipped(x) == {x.sign * (x.hi \div 1000)}

Round1(x) ==
    LET first == (-((5000 - x.lo) \div 10000)) * 10
        last == ((x.hi + 5000) \div 10000) * 10
        below == (x.lo \div 10000) * 10
        even == IF (below \div 10) % 2 = 0 THEN below ELSE below + 10
    IN  (IF x.nan THEN {NaN} ELSE {})
        \cup (IF x.lo = x.hi /\ x.lo % 10000 = 5000
              THEN {x.sign * even}
              ELSE {x.sign * t : t \in {r \in first .. last : r % 10 = 0}})

BASE_URL == "http://192.168.1.106:8004"

\* main.py 106-111: the entries the append can add for a record
ResultEntry(query, item) ==
    { [name |-> item.name,
       similarity |-> sim,
       image_url |-> <<BASE_URL, "/static_images/", item.name>>] :
        sim \in Round1(Sim(query, item.vector)) }

\* main.py 104-111: the lists the loop can build from catalog[1 .. n]
RECURSIVE ScoreLoop(_, _, _)
ScoreLoop(query, catalog, n) ==
    IF n = 0 THEN {<< >>}
    ELSE {Append(list, entry) :
            list \in ScoreLoop(query, catalog, n - 1),
            entry \in ResultEntry(query, catalog[n])}

ScoreCatalog(query, catalog) == ScoreLoop(query, catalog, Len(catalog))

(***************************************************************************)
(* sorted(results_list, key=similarity, reverse=True)[:10]  (main.py 113)  *)
(***************************************************************************)
\* a < b on floats: false when either is NaN
FloatLt(a, b) == a # NaN /\ b # NaN /\ a < b

Reverse(s) == [i \in DOMAIN s |-> s[Len(s) + 1 - i]]

\* s with s[from .. to] reversed
ReverseSlice(s, from, to) ==
    [i \in DOMAIN s |-> IF from <= i /\ i <= to THEN s[from + to - i] ELSE s[i]]

\* CPython's list sort on a list shorter than 64 entries is count_run
\* followed by binarysort; every comparison is key(a) < key(b).  count_run
\* finds the run the list starts with and puts it in ascending order; it was
\* rewritten in CPython 3.13.
CountRuns == {"3.12", "3.13"}

\* count_run up to CPython 3.12: where the run that starts with s[1 .. k]
\* ends
RECURSIVE RunEnd(_, _, _)
RunEnd(s, k, descending) ==
    IF k = Len(s) THEN k
    ELSE IF FloatLt(s[k + 1].similarity, s[k].similarity) = descending
    THEN RunEnd(s, k + 1, descending)
    ELSE k

\* count_run up to CPython 3.12: a strictly descending run is reversed
CountRun312(s) ==
    IF Len(s) < 2 THEN [n |-> Len(s), list |-> s]
    ELSE LET descending == FloatLt(s[2].similarity, s[1].similarity)
             n == RunEnd(s, 2, descending)
         IN  [n |-> n, list |-> IF descending THEN ReverseSlice(s, 1, n) ELSE s]

\* count_run from CPython 3.13: the run s[1 .. n] goes on while the next key
\* is not smaller
RECURSIVE AscendingEnd(_, _)
AscendingEnd(s, n) ==
    IF n >= Len(s) THEN n
    ELSE IF FloatLt(s[n + 1].similarity, s[n].similarity) THEN n
    ELSE AscendingEnd(s, n + 1)

\* count_run from CPython 3.13, REVERSE_LAST_NEQ: the last neq + 1 of the n
\* entries, all equal, are reversed
ReverseLastNeq(s, n, neq) == IF neq = 0 THEN s ELSE ReverseSlice(s, n - neq, n)

\* count_run from CPython 3.13: the descending run s[1 .. n] goes on over
\* smaller and over equal keys (keys of which neither is less than the
\* other), the runs of equal keys reversed on the way
RECURSIVE DescendingRun(_, _, _)
DescendingRun(s, n, neq) ==
    IF n >= Len(s) THEN [n |-> n, list |-> ReverseLastNeq(s, n, neq)]
    ELSE IF FloatLt(s[n + 1].similarity, s[n].similarity)
    THEN DescendingRun(ReverseLastNeq(s, n, neq), n + 1, 0)
    ELSE IF FloatLt(s[n].similarity, s[n + 1].similarity)
    THEN [n |-> n, list |-> ReverseLastNeq(s, n, neq)]
    ELSE DescendingRun(s, n + 1, neq + 1)

\* count_run from CPython 3.13: an ascending run that has increased is
\* taken as it is; a run of equal keys followed by a smaller key starts a
\* descending run, which is reversed and then extended while the keys do not
\* decrease
CountRun313(s) ==
    IF Len(s) < 2 THEN [n |-> Len(s), list |-> s]
    ELSE LET first == AscendingEnd(s, 1)
         IN  IF first = Len(s) THEN [n |-> first, list |-> s]
             ELSE IF first > 1 /\ FloatLt(s[1].similarity, s[first].similarity)
             THEN [n |-> first, list |-> s]
             ELSE LET equal == IF first > 1 THEN ReverseSlice(s, 1, first) ELSE s
                      run == DescendingRun(equal, first + 1, 0)
                      ascending == ReverseSlice(run.list, 1, run.n)
                  IN  [n |-> AscendingEnd(ascending, run.n), list |-> ascending]

\* binarysort: how many of s[l + 1 .. r] stay before the pivot
RECURSIVE Bisect(_, _, _, _)
Bisect(s, pivot, l, r) ==
    IF l >= r THEN l
    ELSE LET p == l + (r - l) \div 2
         IN  IF FloatLt(pivot.similarity, s[p + 1].similarity)
             THEN Bisect(s, pivot, l, p)
             ELSE Bisect(s, pivot, p + 1, r)

\* binarysort: s[1 .. start] is in order, the rest is inserted one by one
RECURSIVE BinarySort(_, _)
BinarySort(s, start) ==
    IF start >= Len(s) THEN s
    ELSE LET pivot == s[start + 1]
             l == Bisect(s, pivot, 0, start)
         IN  BinarySort(SubSeq(s, 1, l) \o <<pivot>> \o SubSeq(s, l + 1, start)
                          \o SubSeq(s, start + 2, Len(s)),
                        start + 1)

ListSort(s, count_run) ==
    LET run == IF count_run = "3.13" THEN CountRun313(s) ELSE CountRun312(s)
    IN  BinarySort(run.list, run.n)

\* reverse=True: the list is reversed, sorted, and reversed again.  Without
\* NaN the result is in non-increasing order and entries of equal similarity
\* keep their catalog order, under either count_run; NaN compares false with
\* everything, the result need not be in order and depends on count_run
SortedDesc(s, count_run) == Reverse(ListSort(Reverse(s), count_run))

Top10Unsorted(list, count_run) == Take(list, TOP_N)

Top10(list, count_run) == Take(SortedDesc(list, count_run), TOP_N)

(***************************************************************************)
(* File names are sequences of characters, over ASCII and Latin-1          *)
(***************************************************************************)
UpperCase == <<"A", "B", "C", "D", "E", "F", "G", "H", "I", "J", "K", "L", "M",
               "N", "O", "P", "Q", "R", "S", "T", "U", "V", "W", "X", "Y", "Z",
               "À", "Á", "Â", "Ã", "Ä", "Å", "Æ", "Ç", "È", "É", "Ê", "Ë", "Ì",
               "Í", "Î", "Ï", "Ð", "Ñ", "Ò", "Ó", "Ô", "Õ", "Ö", "Ø", "Ù", "Ú",
               "Û", "Ü", "Ý", "Þ">>

LowerCase == <<"a", "b", "c", "d", "e", "f", "g", "h", "i", "j", "k", "l", "m",
               "n", "o", "p", "q", "r", "s", "t", "u", "v", "w", "x", "y", "z",
               "à", "á", "â", "ã", "ä", "å", "æ", "ç", "è", "é", "ê", "ë", "ì",
               "í", "î", "ï", "ð", "ñ", "ò", "ó", "ô", "õ", "ö", "ø", "ù", "ú",
               "û", "ü", "ý", "þ">>

\* str.lower() of one character of the names' alphabet (ASCII and Latin-1)
LowerChar(c) ==
    IF \E i \in DOMAIN UpperCase : UpperCase[i] = c
    THEN LowerCase[CHOOSE i \in DOMAIN UpperCase : UpperCase[i] = c]
    ELSE c

\* str.lower()
Lower(name) == [i \in DOMAIN name |-> LowerChar(name[i])]

\* str.endswith(suffix)
EndsWith(name, suffix) ==
    /\ Len(suffix) <= Len(name)
    /\ SubSeq(name, Len(name) - Len(suffix) + 1, Len(name)) = suffix

IMAGE_SUFFIXES == {<<".", "p", "n", "g">>, <<".", "j", "p", "g">>, <<".", "j", "p", "e", "g">>}

\* index_catalog.py 78: f.lower().endswith(('.png', '.jpg', '.jpeg'))
IsImageName(name) == \E suffix \in IMAGE_SUFFIXES : EndsWith(Lower(name), suffix)

(***************************************************************************)
(* The image folder Rings/ring/ and the catalog file catalog_data.npy      *)
(***************************************************************************)
\* a directory entry: cv2.imread gives its image, or None when unreadable
Entry(name, readable, im) == [name |-> name, readable |-> readable, image |-> im]

Folders ==
    { [exists |-> FALSE, listing |-> << >>],
      [exists |-> TRUE, listing |-> << >>],
      [exists |-> TRUE, listing |->
         << Entry(<<"a", ".", "p", "n", "g">>, TRUE,
                  Image(NoMask, <<255, 255>>, <<Ring>>, FALSE)),
            Entry(<<"b", ".", "J", "P", "G">>, TRUE,
                  Image(<<250, 3>>, <<0, 255>>, <<Ring>>, FALSE)),
            Entry(<<"c", ".", "t", "x", "t">>, TRUE,
                  Image(NoMask, <<255, 0>>, <<Ring>>, FALSE)),
            Entry(<<"d", ".", "j", "p", "e", "g">>, FALSE, NoImage),
            Entry(<<"e", ".", "j", "p", "g">>, TRUE,
                  Image(NoMask, <<255, 255>>, <<Ring>>, TRUE)),
            Entry(<<"f", ".", "P", "n", "g">>, TRUE,
                  Image(<<0, 1000>>, <<255, 0>>,
                        <<Ring, Person(Float32(PERSON_CONF) + 1)>>, FALSE)) >>] }

Digit == <<"0", "1", "2", "3", "4", "5", "6", "7", "8", "9">>

RingName(i) == <<"r", Digit[(i \div 10) + 1], Digit[(i % 10) + 1], ".", "p", "n", "g">>

\* fused vectors of earlier indexing runs
NearVectors == << <<30, 73>>, <<30, 74>>, <<-1, 0>> >>

AllVectors == << <<30, 73>>, <<2, 74>>, <<1, 0>>, <<-1, 73>>, <<30, 0>>, <<30, 73>>, <<-1, 0>> >>

\* the cosine of the first with <<1, 0>> is 0.37949999962, under the rounding
\* tie 37.95 by less than the error of the float32 arithmetic
TieVectors == << <<6798, 16573>>, <<-1, 0>> >>

\* a fused vector of zero norm
ZeroVector == <<0, 0>>

\* with <<1, 0>> these score 80.0, -60.0, 80.0, 80.0, -100.0, 80.0, 60.0,
\* 80.0, 0.0, NaN, -100.0 and -60.0
MixedVectors == << <<4, 3>>, <<-3, 4>>, <<4, 3>>, <<4, 3>>, <<-1, 0>>, <<4, 3>>,
                   <<3, 4>>, <<4, 3>>, <<0, 1>>, ZeroVector, <<-1, 0>>, <<-3, 4>> >>

PatternCatalog(n, pool) ==
    [i \in 1 .. n |-> [name |-> RingName(i), vector |-> pool[((i - 1) % Len(pool)) + 1]]]

CatalogSizes == {0, 1, 2} \cup (TOP_N .. MaxCatalog)

\* the catalog with the vector of its last record but one of zero norm
ZeroCatalog(n) == [PatternCatalog(n, AllVectors) EXCEPT ![n - 1].vector = ZeroVector]

\* a file written completely
Saved(records) == [exists |-> TRUE, partial |-> FALSE, records |-> records]

\* a file opened for writing and not yet written to its end
Truncated == [exists |-> TRUE, partial |-> TRUE, records |-> << >>]

CatalogFiles ==
    { [exists |-> FALSE, partial |-> FALSE, records |-> << >>] }
    \cup { Saved(PatternCatalog(n, pool)) :
             n \in CatalogSizes, pool \in {NearVectors, AllVectors} }
    \cup { Saved(PatternCatalog(n, TieVectors)) : n \in {2} }
    \cup { Saved(ZeroCatalog(n)) : n \in {2, MaxCatalog} }
    \cup { Saved(PatternCatalog(Len(MixedVectors), MixedVectors)) }

\* main.py 42-46: np.load, or the empty array when loading fails (no file,
\* or a file that np.save has not finished)
LoadCatalog(f) == IF f.exists /\ ~f.partial THEN f.records ELSE << >>

(***************************************************************************)
(* run_indexing (index_catalog.py 72-103)                                  *)
(***************************************************************************)
\* index_catalog.py 78
ListImages(listing) == SelectSeq(listing, LAMBDA e : IsImageName(e.name))

\* one pass of the loop body (index_catalog.py 82-98)
IndexOneAborting(list, e, kind) ==
    IF ~e.readable THEN << >>
    ELSE LET vector == IndexCombinedEmbedding(e.image, kind)
         IN  IF vector.raised THEN << >>
             ELSE Append(list, [name |-> e.name, vector |-> vector.vector])

IndexOne(list, e, kind) ==
    IF ~e.readable THEN list
    ELSE LET vector == IndexCombinedEmbedding(e.image, kind)
         IN  IF vector.raised THEN list
             ELSE Append(list, [name |-> e.name, vector |-> vector.vector])

\* the loop of index_catalog.py 81-98 over images[1 .. n]
RECURSIVE IndexLoop(_, _, _)
IndexLoop(images, n, kind) ==
    IF n = 0 THEN << >>
    ELSE IndexOne(IndexLoop(images, n - 1, kind), images[n], kind)

(***************************************************************************)
(* Responses                                                               *)
(***************************************************************************)
NoPng == [pixels |-> << >>, alpha |-> << >>, inpainted |-> FALSE]

NoResponse == [kind |-> "none", error |-> "", list |-> << >>, png |-> NoPng]

ErrorResponse(msg) == [kind |-> "error", error |-> msg, list |-> << >>, png |-> NoPng]

ListResponse(list) == [kind |-> "list", error |-> "", list |-> list, png |-> NoPng]

PngResponse(png) == [kind |-> "png", error |-> "", list |-> << >>, png |-> png]

\* an exception leaves the handler: HTTP 500
ServerError == [kind |-> "raised", error |-> "", list |-> << >>, png |-> NoPng]

CATALOG_EMPTY == "Catalog is empty. Run indexing script."
PERSON_DETECTED == "Invalid Image: Person detected. Please photograph only the ring."
NO_MATCH == "No matching ring detected. Try a closer, centered photo."
NOT_FOUND == "Image not found"
NO_STONE == "No stone detected"

(***************************************************************************)
(* The service process                                                     *)
(***************************************************************************)
Init ==
    /\ folder \in Folders
    /\ file \in CatalogFiles
    /\ clip_kind \in ClipKinds
    /\ CATALOG_DATA = LoadCatalog(file)
    /\ boots = 1
    /\ indexed = FALSE
    /\ saving = FALSE
    /\ catalog_list = << >>
    /\ awaiting = 0
    /\ pc = "idle"
    /\ img = NoImage
    /\ detections = << >>
    /\ mask_img = << >>
    /\ query_vector = NoVector
    /\ results_list = << >>
    /\ top_10 = << >>
    /\ response = NoResponse
    /\ log = << >>

environment == <<folder, file, clip_kind, indexed, saving, catalog_list>>

locals == <<img, detections, mask_img, query_vector, results_list, top_10>>

ResetLocals ==
    /\ img' = NoImage
    /\ detections' = << >>
    /\ mask_img' = << >>
    /\ query_vector' = NoVector
    /\ results_list' = << >>
    /\ top_10' = << >>

\* the process is started again: the module body of main.py runs (41-46)
RestartService ==
    /\ boots < MaxBoots
    /\ boots' = boots + 1
    /\ CATALOG_DATA' = LoadCatalog(file)
    /\ awaiting' = 0
    /\ pc' = "idle"
    /\ ResetLocals
    /\ response' = NoResponse
    /\ log' = << >>
    /\ UNCHANGED environment

\* search_ring, main.py 77-81: the empty-catalog check; a request that
\* passes it is suspended in await file.read() and the event loop is free
SearchRingReloading ==
    /\ pc = "idle"
    /\ CATALOG_DATA' = LoadCatalog(file)
    /\ ResetLocals
    /\ log' = <<"catalog_check">>
    /\ IF Len(CATALOG_DATA') = 0
       THEN /\ response' = ErrorResponse(CATALOG_EMPTY)
            /\ awaiting' = awaiting
       ELSE /\ awaiting < MaxAwaiting
            /\ response' = NoResponse
            /\ awaiting' = awaiting + 1
    /\ UNCHANGED <<environment, boots, pc>>

SearchRingUnchecked ==
    /\ pc = "idle"
    /\ ResetLocals
    /\ log' = <<"catalog_check">>
    /\ awaiting < MaxAwaiting
    /\ response' = NoResponse
    /\ awaiting' = awaiting + 1
    /\ UNCHANGED <<environment, CATALOG_DATA, boots, pc>>

SearchRing ==
    /\ pc = "idle"
    /\ ResetLocals
    /\ log' = <<"catalog_check">>
    /\ IF Len(CATALOG_DATA) = 0
       THEN /\ response' = ErrorResponse(CATALOG_EMPTY)
            /\ awaiting' = awaiting
       ELSE /\ awaiting < MaxAwaiting
            /\ response' = NoResponse
            /\ awaiting' = awaiting + 1
    /\ UNCHANGED <<environment, CATALOG_DATA, boots, pc>>

\* search_ring, main.py 81-83: a suspended request is resumed with its
\* upload read, and decodes it
ReadUpload(upload) ==
    /\ pc = "idle"
    /\ awaiting > 0
    /\ awaiting' = awaiting - 1
    /\ img' = upload
    /\ detections' = << >>
    /\ mask_img' = << >>
    /\ query_vector' = NoVector
    /\ results_list' = << >>
    /\ top_10' = << >>
    /\ response' = NoResponse
    /\ pc' = "detect"
    /\ log' = <<"catalog_check", "read">>
    /\ UNCHANGED <<environment, CATALOG_DATA, boots>>

\* main.py 86-90
DetectSkippingGate ==
    /\ pc = "detect"
    /\ log' = Append(log, "detect")
    /\ IF img.raises
       THEN /\ detections' = detections
            /\ response' = ServerError
            /\ pc' = "idle"
       ELSE /\ detections' = img.boxes
            /\ response' = response
            /\ pc' = "embed"
    /\ UNCHANGED <<environment, CATALOG_DATA, boots, awaiting, img, mask_img,
                   query_vector, results_list, top_10>>

Detect ==
    /\ pc = "detect"
    /\ log' = Append(log, "detect")
    /\ IF img.raises
       THEN /\ detections' = detections
            /\ response' = ServerError
            /\ pc' = "idle"
       ELSE /\ detections' = img.boxes
            /\ response' = response
            /\ pc' = "person"
    /\ UNCHANGED <<environment, CATALOG_DATA, boots, awaiting, img, mask_img,
                   query_vector, results_list, top_10>>

\* main.py 96: int(cls) == 0 and confidences[i] > 0.40, where confidences[i]
\* is a numpy float32 and 0.40 a Python float.  numpy 1.x compares the two
\* as doubles (0.40 lies between two float32 values); numpy 2 takes the
\* Python float as weak and compares with the float32 nearest to 0.40.
PersonAboveLoose(boxes, weak) ==
    \E i \in DOMAIN boxes :
       boxes[i].cls = PERSON_CLASS /\ boxes[i].conf >= Float32(PERSON_CONF) - 1

PersonAbove(boxes, weak) ==
    \E i \in DOMAIN boxes :
       /\ boxes[i].cls = PERSON_CLASS
       /\ IF weak
          THEN boxes[i].conf > Float32(PERSON_CONF)
          ELSE boxes[i].conf > (PERSON_CONF * CONF_UNIT) \div 100

\* main.py 95-98, under either numpy
PersonGate ==
    /\ pc = "person"
    /\ log' = Append(log, "person_gate")
    /\ \E weak \in BOOLEAN :
          IF PersonAbove(detections, weak)
          THEN /\ response' = ErrorResponse(PERSON_DETECTED)
               /\ pc' = "idle"
          ELSE /\ response' = response
               /\ pc' = "embed"
    /\ UNCHANGED <<environment, CATALOG_DATA, boots, awaiting, locals>>

\* main.py 102 (get_combined_embedding, 48-75)
Embed ==
    /\ pc = "embed"
    /\ log' = Append(log, "embed")
    /\ query_vector' = MainCombinedEmbedding(img, clip_kind)
    /\ mask_img' = IF img.raises THEN << >> ELSE StoneView(img)
    /\ IF query_vector'.raised
       THEN /\ response' = ServerError
            /\ pc' = "idle"
       ELSE /\ response' = response
            /\ pc' = "score"
    /\ UNCHANGED <<environment, CATALOG_DATA, boots, awaiting, img, detections,
                   results_list, top_10>>

\* main.py 104-111
Score ==
    /\ pc = "score"
    /\ log' = Append(log, "score")
    /\ results_list' \in ScoreCatalog(query_vector.vector, CATALOG_DATA)
    /\ pc' = "sort"
    /\ UNCHANGED <<environment, CATALOG_DATA, boots, awaiting, img, detections, mask_img,
                   query_vector, top_10, response>>

\* main.py 113, under either count_run
Sort ==
    /\ pc = "sort"
    /\ log' = Append(log, "sort")
    /\ \E count_run \in CountRuns : top_10' = Top10(results_list, count_run)
    /\ pc' = "gate"
    /\ UNCHANGED <<environment, CATALOG_DATA, boots, awaiting, img, detections, mask_img,
                   query_vector, results_list, response>>

\* main.py 114
best_sim == top_10[1].similarity

\* main.py 119
BelowThresholdInclusive(sim) == FloatLt(sim, BEST_SIM_MIN) \/ sim = BEST_SIM_MIN

BelowThreshold(sim) == FloatLt(sim, BEST_SIM_MIN)

\* main.py 122: the returned list is encoded by the framework's JSON
\* response, json.dumps(..., allow_nan=False), which raises on NaN
JsonCompliant(list) == \A i \in DOMAIN list : list[i].similarity # NaN

\* main.py 114-122; top_10[0] of an empty list raises IndexError
QualityGate ==
    /\ pc = "gate"
    /\ log' = Append(log, "quality_gate")
    /\ response' = IF Len(top_10) = 0 THEN ServerError
                   ELSE IF BelowThreshold(best_sim) THEN ErrorResponse(NO_MATCH)
                   ELSE IF ~JsonCompliant(top_10) THEN ServerError
                   ELSE ListResponse(top_10)
    /\ pc' = "idle"
    /\ UNCHANGED <<environment, CATALOG_DATA, boots, awaiting, locals>>

(***************************************************************************)
(* The utility endpoints                                                   *)
(***************************************************************************)
MissingName == <<"z", ".", "p", "n", "g">>

RequestNames == {folder.listing[i].name : i \in DOMAIN folder.listing} \cup {MissingName}

\* cv2.imread(os.path.join(STATIC_IMG_PATH, image_name)): NoImage is None
ReadImage(name) ==
    IF \E i \in DOMAIN folder.listing :
          folder.listing[i].name = name /\ folder.listing[i].readable
    THEN folder.listing[CHOOSE i \in DOMAIN folder.listing :
                           folder.listing[i].name = name].image
    ELSE NoImage

SeqMax(s) == IF s = << >> THEN 0 ELSE CHOOSE m \in {s[i] : i \in DOMAIN s} : \A i \in DOMAIN s : s[i] <= m

\* cv2.dilate with a 25x25 kernel: on images narrower than the kernel's
\* half-width every pixel takes the maximum of the mask
Dilate(m) == [p \in DOMAIN m |-> SeqMax(m)]

\* main.py 124-143
GetMask(image_name) ==
    /\ pc = "idle"
    /\ log' = <<"get_mask">>
    /\ LET image == ReadImage(image_name)
       IN  response' =
             IF image = NoImage THEN ErrorResponse(NOT_FOUND)
             ELSE IF image.raises THEN ServerError
             ELSE IF image.mask # NoMask
             THEN PngResponse([pixels |-> BitwiseAnd(image.pix, MaskUint8(image.mask)),
                               alpha |-> MaskUint8(image.mask),
                               inpainted |-> FALSE])
             ELSE ErrorResponse(NO_STONE)
    /\ ResetLocals
    /\ UNCHANGED <<environment, CATALOG_DATA, boots, awaiting, pc>>

\* main.py 145-174; the inpainted region is what alpha marks
RemoveStone(image_name) ==
    /\ pc = "idle"
    /\ log' = <<"remove_stone">>
    /\ LET image == ReadImage(image_name)
       IN  response' =
             IF image = NoImage THEN ErrorResponse(NOT_FOUND)
             ELSE IF image.raises THEN ServerError
             ELSE IF image.mask # NoMask
             THEN PngResponse([pixels |-> image.pix,
                               alpha |-> Dilate(MaskUint8(image.mask)),
                               inpainted |-> TRUE])
             ELSE PngResponse([pixels |-> image.pix, alpha |-> << >>,
                               inpainted |-> FALSE])
    /\ ResetLocals
    /\ UNCHANGED <<environment, CATALOG_DATA, boots, awaiting, pc>>

(***************************************************************************)
(* The indexing script, a process of its own                               *)
(***************************************************************************)
\* index_catalog.py 72-101: the records are collected, and np.save opens
\* the catalog file for writing, which empties it
RunIndexing ==
    /\ ~saving
    /\ IF ~folder.exists
       THEN UNCHANGED <<file, indexed, saving, catalog_list>>
       ELSE LET images == ListImages(folder.listing)
            IN  /\ catalog_list' = IndexLoop(images, Len(images), clip_kind)
                /\ file' = Truncated
                /\ indexed' = FALSE
                /\ saving' = TRUE
    /\ UNCHANGED <<folder, clip_kind, CATALOG_DATA, boots, awaiting, pc, locals, response, log>>

\* index_catalog.py 101-103: np.save has written the records and closes the
\* file
SaveCatalog ==
    /\ saving
    /\ file' = Saved(catalog_list)
    /\ indexed' = TRUE
    /\ saving' = FALSE
    /\ catalog_list' = << >>
    /\ UNCHANGED <<folder, clip_kind, CATALOG_DATA, boots, awaiting, pc, locals, response, log>>

Next ==
    \/ SearchRing
    \/ \E upload \in Uploads : ReadUpload(upload)
    \/ Detect
    \/ PersonGate
    \/ Embed
    \/ Score
    \/ Sort
    \/ QualityGate
    \/ \E image_name \in RequestNames : GetMask(image_name)
    \/ \E image_name \in RequestNames : RemoveStone(image_name)
    \/ RunIndexing
    \/ SaveCatalog
    \/ RestartService

Spec == Init /\ [][Next]_vars

(***************************************************************************)
(* Properties                                                              *)
(***************************************************************************)
InLog(step) == \E i \in DOMAIN log : log[i] = step

Pos(step) == CHOOSE i \in DOMAIN log : log[i] = step

Names(list) == {list[i].name : i \in DOMAIN list}

\* C1: for the image of a query, get_combined_embedding of the search
\* service gives what get_combined_embedding of the indexing script gives
\* for the same image, whatever the embedding model returns.
C1_SameFusedVector ==
    InLog("embed") => query_vector = IndexCombinedEmbedding(img, clip_kind)

Sims(list) == {list[i].similarity : i \in DOMAIN list}

\* the similarities of a list that are numbers
Numbers(list) == Sims(list) \ {NaN}

IsZeroNorm(v) == \A k \in DOMAIN v : v[k] = 0

PersonRejected ==
    /\ response = ErrorResponse(PERSON_DETECTED)
    /\ pc = "idle"
    /\ Last(log) = "person_gate"
    /\ ~InLog("embed") /\ ~InLog("score")
    /\ query_vector = NoVector /\ results_list = << >>

\* the outcome of a request that the person gate let through
PersonPassed ==
    /\ response # ErrorResponse(PERSON_DETECTED)
    /\ (pc = "embed" \/ InLog("embed"))

\* C3 as claimed: once the person gate has run, the request is rejected with
\* the person-detected error, without embedding or scoring, exactly when some
\* detection is a person with confidence above 0.40; at 0.40 or below the
\* gate lets the request through.
C3_PersonGate ==
    InLog("person_gate") =>
        IF \E i \in DOMAIN img.boxes :
              img.boxes[i].cls = 0 /\ img.boxes[i].conf * 100 > 40 * CONF_UNIT
        THEN PersonRejected
        ELSE PersonPassed

\* C3 amended: once the person gate has run, the request is rejected with the
\* person-detected error, without embedding or scoring, when some detection
\* is a person with confidence above the float32 nearest to 0.40; the gate
\* lets it through when every person's confidence is below 0.40; and when the
\* highest person confidence is the float32 nearest to 0.40 (which is above
\* 0.40), it is rejected under one numpy and let through under the other.
C3_PersonGateFloat32 ==
    InLog("person_gate") =>
        LET persons == {i \in DOMAIN img.boxes : img.boxes[i].cls = 0}
        IN  IF \E i \in persons : img.boxes[i].conf > Float32(40)
            THEN PersonRejected
            ELSE IF \A i \in persons : img.boxes[i].conf * 100 < 40 * CONF_UNIT
            THEN PersonPassed
            ELSE PersonRejected \/ PersonPassed

C3_Witness ==
    /\ PersonRejected
    /\ Len(CATALOG_DATA) > 0
    /\ \E i \in DOMAIN img.boxes :
          img.boxes[i].cls = 0 /\ img.boxes[i].conf = Float32(40) + 1

C5_BothGatesBeforeScoring ==
    InLog("score") =>
        /\ InLog("person_gate") /\ Pos("person_gate") < Pos("score")
        /\ InLog("quality_gate") /\ Pos("quality_gate") < Pos("score")

\* C5 amended: the person gate is evaluated before any catalog record is
\* scored; the quality gate is evaluated after scoring and sorting, and
\* before any result list is returned.
C5_GateOrder ==
    /\ InLog("score") => InLog("person_gate") /\ Pos("person_gate") < Pos("score")
    /\ pc \in {"score", "sort", "gate"} => InLog("person_gate")
    /\ InLog("quality_gate") =>
          /\ InLog("score") /\ Pos("score") < Pos("quality_gate")
          /\ InLog("sort") /\ Pos("sort") < Pos("quality_gate")
    /\ response.kind = "list" => InLog("quality_gate")

C5_Witness ==
    /\ response.kind = "list"
    /\ log = <<"catalog_check", "read", "detect", "person_gate", "embed",
               "score", "sort", "quality_gate">>

\* C6 as claimed: with a mask, a pixel of the stone view keeps its value
\* exactly when the resized mask value there is at least 0.5, and is zero
\* otherwise.
C6_StencilAtHalf ==
    (InLog("embed") /\ ~img.raises /\ img.mask # NoMask) =>
        \A p \in DOMAIN img.pix :
           mask_img[p] = IF img.mask[p] >= 500 THEN img.pix[p] ELSE 0

\* C6 amended: with a mask, a pixel of the stone view keeps its value
\* exactly when the resized mask value times 255, truncated to an integer,
\* is not zero (a mask value of at least 1/255), and is zero otherwise.
C6_StencilAtNonZero ==
    (InLog("embed") /\ ~img.raises /\ img.mask # NoMask) =>
        \A p \in DOMAIN img.pix :
           mask_img[p] = IF 255 * img.mask[p] >= 1000 THEN img.pix[p] ELSE 0

C6_Witness ==
    /\ InLog("embed")
    /\ img.mask = <<250, 3>>
    /\ mask_img = <<9, 0>>

C8_CatalogFixed ==
    [][ /\ boots' = boots => CATALOG_DATA' = CATALOG_DATA
        /\ boots' # boots => CATALOG_DATA' = LoadCatalog(file) ]_vars

C8_Witness ==
    /\ boots = 1
    /\ indexed
    /\ LoadCatalog(file) # CATALOG_DATA
    /\ response.kind = "list"

\* C9: with an empty catalog a search request returns the catalog-empty
\* error at once: nothing is read, detected, embedded or scored, no gate
\* runs; and the quality gate never sees an empty list.
C9_EmptyCatalog ==
    /\ Len(CATALOG_DATA) = 0 =>
          /\ pc = "idle" /\ awaiting = 0
          /\ img = NoImage /\ detections = << >> /\ query_vector = NoVector
          /\ results_list = << >> /\ top_10 = << >>
          /\ log \in {<< >>, <<"catalog_check">>, <<"get_mask">>, <<"remove_stone">>}
          /\ log = <<"catalog_check">> => response = ErrorResponse(CATALOG_EMPTY)
    /\ pc = "gate" => Len(top_10) > 0
    /\ InLog("quality_gate") => Len(top_10) > 0
    /\ (InLog("quality_gate") /\ response = ServerError) => NaN \in Sims(top_10)

C9_Witness ==
    /\ ~file.exists
    /\ boots = 1
    /\ Len(CATALOG_DATA) = 0
    /\ response = ErrorResponse(CATALOG_EMPTY)

\* the listed image files that are read and embedded without failure
Indexable(e) ==
    /\ \E suffix \in IMAGE_SUFFIXES : EndsWith(Lower(e.name), suffix)
    /\ e.readable
    /\ ~IndexCombinedEmbedding(e.image, clip_kind).raised

\* C10: the saved catalog holds, in listing order, exactly one record for
\* each listed .png/.jpg/.jpeg file that was read and embedded, and none
\* for a file that failed.
C10_FailureIsolated ==
    LET good == SelectSeq(folder.listing, Indexable)
        saved == IF saving THEN catalog_list ELSE file.records
    IN  (saving \/ indexed) =>
           /\ file.exists
           /\ indexed => ~file.partial
           /\ Len(saved) = Len(good)
           /\ \A i \in DOMAIN good :
                 /\ saved[i].name = good[i].name
                 /\ saved[i].vector =
                       IndexCombinedEmbedding(good[i].image, clip_kind).vector

C10_Witness ==
    /\ indexed
    /\ ~saving
    /\ Len(folder.listing) = 6
    /\ Len(file.records) = 3
    /\ file.records[3].name = <<"f", ".", "P", "n", "g">>

====
